---- MODULE Spec2Model ----
(***************************************************************************)
(* The computational core of src/main.py: the projection handler           *)
(* (lump-sum and SIP compound growth) and the get_cagr handler (CAGR and   *)
(* the decimated yearly price series).                                     *)
(*                                                                         *)
(* Units.  Money is an integer number of eighths of a currency unit and a   *)
(* horizon an integer number of eighths of a year: every multiple of 0.125 *)
(* in the explored range is an exact double, and so are its sums, its      *)
(* products by small integers and 12 times it, so that round() sees the    *)
(* number written here.  An annual rate is an integer percentage.          *)
(*                                                                         *)
(* Growth.  With G = (1 + rate_annual)^(1/12), every unrounded value the   *)
(* projection handler computes is a polynomial in G.  A value is the       *)
(* sequence of its coefficients, p[i+1] the coefficient of G^i, and <<>>   *)
(* is 0.  A per-period rate r is kept as the number of twelfths of a year  *)
(* one period compounds: (1 + r) = G^r.                                    *)
(***************************************************************************)
EXTENDS Integers, Sequences, FiniteSets

\* Bounds of the explored inputs.
MaxAmount == 12
MaxHorizon == 28
MaxSamples == 367
MaxPrice == 2

\* Program constants.
HorizonDen == 8
MoneyDen == 8
YearsLimit == 70
CagrMinPct == -99
CagrMaxPct == 1000
MonthsPerYear == 12
Stride == 365
MinSamples == 2
HTTP_OK == 200

VARIABLES call, frame, result

vars == <<call, frame, result>>

Amounts == 0..MaxAmount
Horizons == 0..MaxHorizon
RatesPct == {-50, 0, 100}
Frequencies == {"monthly", "yearly"}
Types == {"sip", "lump"}
Prices == 0..MaxPrice
SampleCounts == 0..MaxSamples

----------------------------------------------------------------------------
\* Python's round(x) for x = num/den, den > 0: nearest integer, ties to even.
RoundHalfEven(num, den) ==
  LET q == num \div den
      r == num % den
  IN  IF 2 * r < den THEN q
      ELSE IF 2 * r > den THEN q + 1
      ELSE IF q % 2 = 0 THEN q ELSE q + 1

\* Python's int(x) for x = num/den >= 0: truncation.
IntTrunc(num, den) == num \div den

\* pydantic's Field constraints on ProjectionRequest.
ValidRequest(req) ==
  /\ req.amount > 0
  /\ req.years > 0
  /\ req.years <= YearsLimit * HorizonDen
  /\ req.cagr >= CagrMinPct
  /\ req.cagr <= CagrMaxPct

\* Query(5.0, gt=0, le=70) on get_cagr's years.
ValidYears(years) == years > 0 /\ years <= YearsLimit * HorizonDen

----------------------------------------------------------------------------
\* Polynomials in G.

Zeros(k) == [i \in 1..k |-> 0]

\* c * G^e
Monomial(c, e) == [i \in 1..(e + 1) |-> IF i = e + 1 THEN c ELSE 0]

\* p * G^k
Shift(p, k) == IF p = <<>> THEN <<>> ELSE Zeros(k) \o p

\* p + c
AddConst(p, c) == IF p = <<>> THEN <<c>> ELSE [p EXCEPT ![1] = @ + c]

\* p - c
SubConst(p, c) ==
  IF p = <<>> THEN (IF c = 0 THEN <<>> ELSE <<0 - c>>)
  ELSE [p EXCEPT ![1] = @ - c]

\* The exponent of the leading term (0 for the zero polynomial).
Degree(p) == IF p = <<>> THEN 0 ELSE Len(p) - 1

\* b^e for naturals.
RECURSIVE IntPow(_, _)
IntPow(b, e) == IF e = 0 THEN 1 ELSE b * IntPow(b, e - 1)

\* A value is an integer number of eighths when the rate is 0 (G = 1), when
\* no growth has been applied, or when 1 + rate_annual is an integer and only
\* whole years of growth occur.
Representable(p, pct) ==
  \/ pct = 0
  \/ Len(p) <= 1
  \/ /\ pct > 0
     /\ pct % 100 = 0
     /\ \A i \in 1..Len(p) : p[i] # 0 => (i - 1) % MonthsPerYear = 0

\* The term of index i of a representable value, in eighths.
Term(p, pct, i) ==
  IF p[i] = 0 THEN 0
  ELSE IF pct = 0 \/ i = 1 THEN p[i]
  ELSE p[i] * IntPow((100 + pct) \div 100, (i - 1) \div MonthsPerYear)

\* The sum of the terms lo..hi, halving the range.
RECURSIVE EvalRange(_, _, _, _)
EvalRange(p, pct, lo, hi) ==
  IF lo > hi THEN 0
  ELSE IF lo = hi THEN Term(p, pct, lo)
  ELSE LET mid == (lo + hi) \div 2
       IN  EvalRange(p, pct, lo, mid) + EvalRange(p, pct, mid + 1, hi)

\* The number a representable value stands for, in eighths.
Eval(p, pct) == EvalRange(p, pct, 1, Len(p))

----------------------------------------------------------------------------
\* round(x, 2) of x = v eighths, in cents: Python rounds the exact value of
\* the double to the nearest cent, ties to even.
Round2(v) == RoundHalfEven(v * 100, MoneyDen)

----------------------------------------------------------------------------
\* projection, lines 166-175: the per-period rate, the period count and the
\* periods per series year.

\* r: monthly is (1 + rate_annual) ** (1 / 12) - 1, yearly is rate_annual.
PeriodicRate(frequency) == IF frequency = "monthly" THEN 1 ELSE MonthsPerYear

\* n = int(round(years * 12)) or int(round(years))
PeriodCount(frequency, years) ==
  IF frequency = "monthly"
    THEN RoundHalfEven(years * MonthsPerYear, HorizonDen)
    ELSE RoundHalfEven(years, HorizonDen)

LabelDiv(frequency) == IF frequency = "monthly" THEN MonthsPerYear ELSE 1

\* invested * ((1 + r) ** periods)
Compound(invested, r, periods) == Monomial(invested, r * periods)

Point(year, invested, value) ==
  [year |-> year, invested |-> invested, value |-> value]

\* A slip: int(years) in place of int(round(years)).
LumpYearsTruncated(years) == 1..IntTrunc(years, HorizonDen)

\* range(1, int(round(years)) + 1)
LumpYears(years) == 1..RoundHalfEven(years, HorizonDen)

\* periods = y * label_div
LumpPeriods(y, label_div) == y * label_div

\* The lump branch, lines 181-188.
LumpSum(req, r, n) ==
  LET invested == req.amount
      label_div == LabelDiv(req.frequency)
      ys == LumpYears(req.years)
  IN  [invested |-> invested,
       value |-> Compound(invested, r, n),
       series |-> [y \in ys |->
                     Point(y, invested,
                           Compound(invested, r, LumpPeriods(y, label_div)))]]

\* months_total = n if req.frequency == "monthly" else n * 12
MonthsTotal(frequency, n) ==
  IF frequency = "monthly" THEN n ELSE n * MonthsPerYear

\* r_month: one twelfth of a year of growth under either frequency.
MonthlyRate(frequency, r) == IF frequency = "monthly" THEN r ELSE 1

\* A slip: the point is emitted a month late.
EmitsPointLate(m) == m % MonthsPerYear = 1

\* if m % 12 == 0
EmitsPoint(m) == m % MonthsPerYear = 0

\* year=m // 12
PointYear(m) == m \div MonthsPerYear

\* invested += amount
Contribute(invested, amount) == invested + amount

\* value = (value * (1 + r_month)) + amount
Accrue(value, r_month, amount) == AddConst(Shift(value, r_month), amount)

\* One iteration of the loop of lines 196-200, for month f.m.
SipIteration(f, amount) ==
  LET inv2 == Contribute(f.invested, amount)
      val2 == Accrue(f.value, f.r_month, amount)
  IN  [f EXCEPT !.invested = inv2,
                !.value = val2,
                !.series = IF EmitsPoint(f.m)
                             THEN Append(@, Point(PointYear(f.m), inv2, val2))
                             ELSE @,
                !.m = @ + 1]

\* The handler's locals after lines 164-195 (the whole lump branch, or the
\* sip branch up to its loop).  months_total, r_month and m, which the lump
\* branch never binds, carry fixed values there.
ProjectionEntry(req) ==
  LET r == PeriodicRate(req.frequency)
      n == PeriodCount(req.frequency, req.years)
      lump == LumpSum(req, r, n)
  IN  IF req.type = "lump"
        THEN [op |-> "projection", pc |-> "return", r |-> r, n |-> n,
              months_total |-> 0, r_month |-> r, m |-> 1,
              invested |-> lump.invested, value |-> lump.value,
              series |-> lump.series]
        ELSE [op |-> "projection", pc |-> "loop", r |-> r, n |-> n,
              months_total |-> MonthsTotal(req.frequency, n),
              r_month |-> MonthlyRate(req.frequency, r), m |-> 1,
              invested |-> 0, value |-> <<>>, series |-> <<>>]

\* A slip: the operands swapped, invested - value.
ProfitSwapped(value, invested) ==
  AddConst([i \in DOMAIN value |-> 0 - value[i]], invested)

\* profit = value - invested
Profit(value, invested) == SubConst(value, invested)

\* Whether the doubles value and profit are exact: the rate is 0 (r is 0.0),
\* no growth was applied, or the per-period rate is rate_annual itself with
\* 1 + rate_annual an integer.  Under a monthly rate r is the double nearest
\* a twelfth root and the products are only near the numbers they stand for.
ExactTotals(f, pct) ==
  /\ Representable(f.value, pct)
  /\ \/ pct = 0
     \/ Len(f.value) <= 1
     \/ f.r = MonthsPerYear

\* ProjectionResponse(...), lines 202-211.  Totals are in cents; a total
\* that is no exact double stays the expression it rounds.
ProjectionResponse(req, f) ==
  LET exact == ExactTotals(f, req.cagr)
      profit == Profit(f.value, f.invested)
  IN  [outcome |-> "response",
       exact |-> exact,
       total_invested |-> Round2(f.invested),
       final_value |-> IF exact THEN Round2(Eval(f.value, req.cagr))
                       ELSE [round2 |-> f.value],
       profit |-> IF exact THEN Round2(Eval(profit, req.cagr))
                  ELSE [round2 |-> profit],
       cagr |-> req.cagr,
       years |-> req.years,
       series |-> f.series]

----------------------------------------------------------------------------
\* get_cagr.  The upstream reply is its HTTP status and, under "prices", n
\* samples [timestamp, price]: the first and the last price are inputs, and
\* the sample of index i in between carries the price MaxPrice + i.

\* The replies the market-data provider can give.
Replies ==
  {[status |-> 429, n |-> 0, first |-> 0, last |-> 0]}
  \cup {[status |-> HTTP_OK, n |-> 0, first |-> 0, last |-> 0]}
  \cup {[status |-> HTTP_OK, n |-> 1, first |-> p, last |-> p] : p \in Prices}
  \cup {[status |-> HTTP_OK, n |-> n, first |-> p, last |-> q] :
          n \in SampleCounts \ {0, 1}, p \in Prices, q \in Prices}

\* prices[i][1], i counted from 0.
PriceAt(reply, i) ==
  IF i = 0 THEN reply.first
  ELSE IF i = reply.n - 1 THEN reply.last
  ELSE MaxPrice + i

\* days = int(years * 365)
Days(years) == IntTrunc(years * Stride, HorizonDen)

\* A slip: the guard off by one, len(prices) < 1.
InsufficientDataOffByOne(n) == n < MinSamples - 1

\* if len(prices) < 2
InsufficientData(n) == n < MinSamples

\* len(range(0, len(prices), 365))
StrideCount(n) == (n + Stride - 1) \div Stride

\* One iteration of the loop of lines 144-148, for i = 365 * (k - 1).
StridedPoint(reply, k) ==
  LET i == Stride * (k - 1)
      idx_year == IF i < reply.n - 1 THEN i ELSE reply.n - 1
  IN  [year |-> RoundHalfEven(idx_year, Stride), price |-> PriceAt(reply, idx_year)]

\* int(years), the year of the appended point
FinalYear(years) == IntTrunc(years, HorizonDen)

\* Lines 142-149.
CagrSeries(reply, years, end_price) ==
  Append([k \in 1..StrideCount(reply.n) |-> StridedPoint(reply, k)],
         [year |-> FinalYear(years), price |-> end_price])

\* Lines 125-159: the locals the handler has bound when it stops, and what
\* the caller gets.  annual_cagr stays the expression
\* (end_price / start_price) ** (1 / years) - 1.
CagrOutcome(years, reply) ==
  IF reply.status # HTTP_OK
    THEN [frame |-> [op |-> "cagr", days |-> Days(years), bound |-> {"days", "r"}],
          result |-> [outcome |-> "response", years |-> years,
                      cagr |-> [null |-> TRUE],
                      error |-> "r.text"]]
  ELSE IF InsufficientData(reply.n)
    THEN [frame |-> [op |-> "cagr", days |-> Days(years),
                     bound |-> {"days", "r", "prices"}],
          result |-> [outcome |-> "response", years |-> years,
                      cagr |-> [null |-> TRUE],
                      error |-> "Insufficient data"]]
  ELSE LET start_price == PriceAt(reply, 0)
           end_price == PriceAt(reply, reply.n - 1)
       IN  IF start_price = 0
             THEN [frame |-> [op |-> "cagr", days |-> Days(years),
                              bound |-> {"days", "r", "prices", "start_price",
                                         "end_price"}],
                   result |-> [outcome |-> "raised",
                               exception |-> "ZeroDivisionError"]]
             ELSE [frame |-> [op |-> "cagr", days |-> Days(years),
                              bound |-> {"days", "r", "prices", "start_price",
                                         "end_price", "annual_cagr", "series"}],
                   result |-> [outcome |-> "response", years |-> years,
                               cagr |-> [null |-> FALSE,
                                         end_price |-> end_price,
                                         start_price |-> start_price,
                                         years |-> years],
                               start_price |-> start_price,
                               end_price |-> end_price,
                               series |-> CagrSeries(reply, years, end_price)]]

NoCall == [op |-> "none"]
NoFrame == [op |-> "none"]
NoResult == [outcome |-> "none"]

----------------------------------------------------------------------------
Init ==
  /\ call = NoCall
  /\ frame = NoFrame
  /\ result = NoResult

\* POST /api/projection arrives: validation, then lines 164-195.
Projection ==
  /\ call = NoCall
  /\ \E type \in Types, amount \in Amounts, years \in Horizons,
        cagr \in RatesPct, frequency \in Frequencies :
       LET req == [op |-> "projection", type |-> type, amount |-> amount,
                   years |-> years, cagr |-> cagr, frequency |-> frequency]
       IN  /\ call' = req
           /\ IF ValidRequest(req)
                THEN /\ frame' = ProjectionEntry(req)
                     /\ result' = NoResult
                ELSE /\ frame' = [op |-> "rejected"]
                     /\ result' = [outcome |-> "rejected"]

\* for m in range(1, months_total + 1): one month.
SipStep ==
  /\ frame.op = "projection"
  /\ frame.pc = "loop"
  /\ frame.m <= frame.months_total
  /\ frame' = SipIteration(frame, call.amount)
  /\ UNCHANGED <<call, result>>

\* The loop is exhausted.
SipExit ==
  /\ frame.op = "projection"
  /\ frame.pc = "loop"
  /\ frame.m > frame.months_total
  /\ frame' = [frame EXCEPT !.pc = "return"]
  /\ UNCHANGED <<call, result>>

\* Lines 202-211: the response.
ProjectionReturn ==
  /\ frame.op = "projection"
  /\ frame.pc = "return"
  /\ result' = ProjectionResponse(call, frame)
  /\ frame' = [frame EXCEPT !.pc = "done"]
  /\ UNCHANGED call

\* GET /api/cagr: validation of years, the upstream call, lines 125-159.
GetCagr ==
  /\ call = NoCall
  /\ \E years \in Horizons :
       IF ValidYears(years)
         THEN \E reply \in Replies :
                LET out == CagrOutcome(years, reply)
                IN  /\ call' = [op |-> "cagr", years |-> years, reply |-> reply]
                    /\ frame' = out.frame
                    /\ result' = out.result
         ELSE /\ call' = [op |-> "cagr", years |-> years]
              /\ frame' = [op |-> "rejected"]
              /\ result' = [outcome |-> "rejected"]

\* The response has been sent; the request's objects are discarded and no
\* state survives to the next request.
Discard ==
  /\ result # NoResult
  /\ call' = NoCall
  /\ frame' = NoFrame
  /\ result' = NoResult

Next ==
  \/ Projection
  \/ SipStep
  \/ SipExit
  \/ ProjectionReturn
  \/ GetCagr
  \/ Discard

Spec == Init /\ [][Next]_vars

----------------------------------------------------------------------------
\* What the claims speak of.

\* The projection handler has left its branch (lump or sip loop).
Computed ==
  /\ call.op = "projection"
  /\ frame.op = "projection"
  /\ frame.pc \in {"return", "done"}

\* The projection handler has returned its response.
Returned ==
  /\ call.op = "projection"
  /\ frame.op = "projection"
  /\ frame.pc = "done"

\* get_cagr has run on n samples of a successful upstream call.
CagrRan ==
  /\ call.op = "cagr"
  /\ frame.op = "cagr"
  /\ call.reply.status = HTTP_OK

OtherFrequency(f) == IF f = "monthly" THEN "yearly" ELSE "monthly"

AbsDiff(a, b) == IF a >= b THEN a - b ELSE b - a

\* C1: in sip mode, under either frequency, the loop applies
\* m = round(horizon * 12) monthly contributions and the invested total after
\* the loop is amount * m.
C1_SipContributions ==
  (Computed /\ call.type = "sip") =>
    LET m == RoundHalfEven(call.years * 12, HorizonDen)
    IN  /\ frame.m - 1 = m
        /\ frame.invested = call.amount * m

\* C2: for a lump-sum request, the yearly and the monthly computation of the
\* same amount, rate and horizon give the same growth: every series point
\* and the final value.
C2_FrequencyEquivalence ==
  (Computed /\ call.type = "lump") =>
    LET other == ProjectionEntry([call EXCEPT !.frequency = OtherFrequency(@)])
    IN  /\ frame.series = other.series
        /\ frame.value = other.value

\* C3: with at least 2 samples and a first price of 0 (or below), get_cagr
\* returns a result object with cagr = null and a reason, and does not abort
\* with an exception.
C3_ZeroStartReported ==
  (CagrRan /\ call.reply.n >= 2 /\ call.reply.first <= 0) =>
    /\ result.outcome = "response"
    /\ result.cagr.null
    /\ "error" \in DOMAIN result

\* C4: the series get_cagr returns ends with the point
\* (round(horizon), end_price).
C4_FinalPoint ==
  (CagrRan /\ "series" \in DOMAIN result) =>
    LET last == result.series[Len(result.series)]
    IN  /\ last.year = RoundHalfEven(call.years, HorizonDen)
        /\ last.price = call.reply.last

\* C5: when the horizon resolves to zero periods (n = 0), in either mode and
\* frequency, projection returns an empty series with total_invested = 0 and
\* final_value = 0.
C5_ZeroPeriods ==
  (Returned /\ frame.n = 0) =>
    /\ result.outcome = "response"
    /\ result.series = <<>>
    /\ result.total_invested = 0
    /\ result.exact
    /\ result.final_value = 0

\* C6, as claimed: the returned profit is the returned final_value minus the
\* returned total_invested.
C6_ProfitIsDifference ==
  (Returned /\ result.exact) =>
    result.profit = result.final_value - result.total_invested

\* C6, amended: the returned profit is the unrounded value - invested rounded
\* to 2 digits, and it is within one cent of the returned final_value minus
\* the returned total_invested.
C6_ProfitWithinOneCent ==
  (Returned /\ result.exact) =>
    LET unrounded == Eval(frame.value, call.cagr) - frame.invested
    IN  /\ result.profit = Round2(unrounded)
        /\ AbsDiff(result.profit, result.final_value - result.total_invested) <= 1

\* C6's case: a response whose profit is not the difference of the two
\* returned totals.
C6_Witness ==
  /\ Returned
  /\ result.exact
  /\ call.cagr # 0
  /\ result.profit # result.final_value - result.total_invested

\* C7: on a price series of length 0 or 1, get_cagr returns cagr = null with
\* the reason 'Insufficient data', raises nothing, and neither reads
\* start_price or end_price nor computes a rate.
C7_InsufficientData ==
  (CagrRan /\ call.reply.n < 2) =>
    /\ result.outcome = "response"
    /\ result.cagr.null
    /\ result.error = "Insufficient data"
    /\ frame.bound \cap {"start_price", "end_price", "annual_cagr", "series"} = {}
    /\ DOMAIN result \cap {"start_price", "end_price", "series"} = {}

\* C7's case: a single sample.
C7_Witness ==
  /\ CagrRan
  /\ call.reply.n = 1
  /\ result.cagr.null

\* C8: in sip mode, after any number of contributions, the series holds
\* exactly one point per completed 12 months: floor(months / 12) points, of
\* years 1, 2, ... in ascending order, the point of year y with
\* invested = amount * 12 * y, and none for a trailing part of a year.
C8_SipSeries ==
  (call.op = "projection" /\ frame.op = "projection" /\ call.type = "sip") =>
    LET months == frame.m - 1
    IN  /\ Computed => months = frame.months_total
        /\ Len(frame.series) = months \div 12
        /\ \A y \in 1..Len(frame.series) :
             /\ frame.series[y].year = y
             /\ frame.series[y].invested = call.amount * 12 * y
        /\ \A y \in 1..(Len(frame.series) - 1) :
             /\ frame.series[y].year < frame.series[y + 1].year
             /\ frame.series[y].invested <= frame.series[y + 1].invested
        /\ Returned => result.series = frame.series

\* C8's case: a returned sip series of two points or more with a trailing
\* part of a year.
C8_Witness ==
  /\ Returned
  /\ call.type = "sip"
  /\ frame.months_total % 12 # 0
  /\ Len(result.series) >= 2

\* C9: in lump-sum mode the series holds exactly one point per year y,
\* 1 <= y <= round(horizon), in ascending order, each with invested = amount
\* and the value of y * k periods (k = 12 monthly, 1 yearly); for a rate >= 0
\* the values are non-decreasing in the year.
C9_LumpSeries ==
  (Computed /\ call.type = "lump") =>
    LET k == IF call.frequency = "monthly" THEN 12 ELSE 1
        series == frame.series
    IN  /\ DOMAIN series = 1..RoundHalfEven(call.years, HorizonDen)
        /\ \A y \in DOMAIN series :
             /\ series[y].year = y
             /\ series[y].invested = call.amount
             /\ series[y].value = Monomial(call.amount, (y * k) * (12 \div k))
        /\ call.cagr >= 0 =>
             \A y \in DOMAIN series : \A z \in DOMAIN series :
               y < z => /\ Degree(series[y].value) <= Degree(series[z].value)
                        /\ Eval(series[y].value, call.cagr)
                             <= Eval(series[z].value, call.cagr)
        /\ Returned => result.series = series

\* C9's case: a returned lump-sum series of two points or more, at a
\* fractional horizon and a positive rate.
C9_Witness ==
  /\ Returned
  /\ call.type = "lump"
  /\ call.years % HorizonDen # 0
  /\ call.cagr > 0
  /\ Len(result.series) >= 2

\* C10: in lump-sum mode with monthly frequency the last series point covers
\* round(horizon) * 12 periods, which is at most the n periods of final_value;
\* so for a rate >= 0 no series value exceeds the final value.
C10_SeriesWithinTotals ==
  (Computed /\ call.type = "lump" /\ call.frequency = "monthly") =>
    /\ RoundHalfEven(call.years, HorizonDen) * 12 <= frame.n
    /\ \A y \in DOMAIN frame.series :
         Degree(frame.series[y].value) <= Degree(frame.value)

====
